---- MODULE Spec2Model ----
(***************************************************************************)
(* Model of scripts/update_posterior.py: the nightly Beta-posterior        *)
(* updater.  The state is the two files the script touches                 *)
(* (posterior.json, journal.jsonl), the wall clock's date, and the locals  *)
(* and program position of one run of main(); runs follow one another,    *)
(* while the trading bot may append journal lines at any moment.           *)
(***************************************************************************)
EXTENDS Integers, Sequences, FiniteSets, TLC

(* ---------------------------------------------------------------------- *)
(* Bounds of the model                                                     *)
(* ---------------------------------------------------------------------- *)
MaxDay == 2
MaxJournal == 2
MaxRuns == 2
MaxLines == 2

(* Program constants: the default prior of load_posterior                  *)
DefaultAlpha == 83
DefaultBeta == 3

Days == 1..MaxDay

(* ---------------------------------------------------------------------- *)
(* Date strings.  A string is modelled by its form and the day it names:   *)
(*   "canon"  zero-padded YYYY-MM-DD          (what strftime produces)     *)
(*   "loose"  e.g. 2024-1-5: accepted by strptime, not produced by strftime*)
(*   "bad"    rejected by strptime                                         *)
(*   "none"   Python's None                                                *)
(* ---------------------------------------------------------------------- *)
DateStr(f, d) == [form |-> f, day |-> d]
NoneStr == DateStr("none", 0)
BadStr == DateStr("bad", 0)
CanonStrs == {DateStr("canon", d) : d \in Days}
LooseStrs == {DateStr("loose", d) : d \in Days}

\* datetime.strptime(s, "%Y-%m-%d") raises ValueError unless s names a date
StrptimeRaises(s) == s.form \notin {"canon", "loose"}

\* ts.strftime("%Y-%m-%d") of a timestamp on day d
Strftime(d) == DateStr("canon", d)

\* datetime.now().strftime("%Y-%m-%d")
NowStr(day) == Strftime(day)

(* ---------------------------------------------------------------------- *)
(* Journal lines.  json: "malformed" (json.loads raises), "nonobject"      *)
(* (valid JSON that is a number, string, list or null), "object".          *)
(* time.form: "iso" (fromisoformat accepts it, after Z -> +00:00),         *)
(* "bad" (a string fromisoformat rejects), "nonstring" (no .replace),      *)
(* "absent" (no "time" key).  won: "truthy", "falsy", "absent".            *)
(* ---------------------------------------------------------------------- *)
Line(j, ty, tf, td, w) ==
    [json |-> j, type |-> ty, time |-> [form |-> tf, day |-> td], won |-> w]
MalformedLine == Line("malformed", "other", "absent", 0, "absent")
NonObjectLine == Line("nonobject", "other", "absent", 0, "absent")
Settlement(d, w) == Line("object", "settlement", "iso", d, w)
OtherEntry(d) == Line("object", "other", "iso", d, "truthy")
BadTimeEntries ==
    {Line("object", "settlement", tf, 0, "truthy") : tf \in {"bad", "nonstring", "absent"}}

\* the lines the bot appends while the updater runs (Spec)
AppendLines ==
    {Settlement(d, "truthy") : d \in Days}
       \cup {Settlement(1, "falsy"), NonObjectLine}

\* every kind of line a journal may hold (ScanSpec)
AllLines ==
    {Settlement(d, w) : d \in Days, w \in {"truthy", "falsy", "absent"}}
       \cup {OtherEntry(1), MalformedLine, NonObjectLine} \cup BadTimeEntries

(* ---------------------------------------------------------------------- *)
(* The posterior file's text, as a sequence of tokens, and Python values.  *)
(* A cell is the value stored under a key: absent, a number, or something  *)
(* that is not a number (a string, a list, null).                          *)
(* ---------------------------------------------------------------------- *)
Tok(t, k, n, v) == [t |-> t, k |-> k, num |-> n, v |-> v]
LBrace == Tok("{", "", FALSE, 0)
RBrace == Tok("}", "", FALSE, 0)
LBracket == Tok("[", "", FALSE, 0)
RBracket == Tok("]", "", FALSE, 0)
Junk == Tok("junk", "", FALSE, 0)
KeyVal(k, cell) == Tok("kv", k, cell.num, cell.v)

NoCell == [has |-> FALSE, num |-> FALSE, v |-> 0]
Num(n) == [has |-> TRUE, num |-> TRUE, v |-> n]
NotNum == [has |-> TRUE, num |-> FALSE, v |-> 0]

Dict(a, b) == [py |-> "dict", alpha |-> a, beta |-> b]
PyList == [py |-> "list", alpha |-> NoCell, beta |-> NoCell]
\* {"alpha": 83, "beta": 3}
DefaultPosterior == Dict(Num(DefaultAlpha), Num(DefaultBeta))

\* json.dump(posterior, f, indent=2): the text written for a dict
JsonDump(p) ==
    <<LBrace>>
      \o (IF p.alpha.has THEN <<KeyVal("alpha", p.alpha)>> ELSE <<>>)
      \o (IF p.beta.has THEN <<KeyVal("beta", p.beta)>> ELSE <<>>)
      \o <<RBrace>>

\* the value under key k of an object text: the last pair with that key
CellOf(text, k) ==
    LET js == {j \in 1..Len(text) : text[j].t = "kv" /\ text[j].k = k}
    IN  IF js = {} THEN NoCell
        ELSE LET j == CHOOSE x \in js : \A y \in js : y <= x
             IN  [has |-> TRUE, num |-> text[j].num, v |-> text[j].v]

IsObjectText(text) ==
    /\ Len(text) >= 2
    /\ text[1] = LBrace
    /\ text[Len(text)] = RBrace
    /\ \A j \in 2..(Len(text) - 1) : text[j].t = "kv"

IsListText(text) == text = <<LBracket, RBracket>>

\* json.load(f) raises unless the whole text is one JSON value
JsonLoadRaises(text) == ~IsObjectText(text) /\ ~IsListText(text)

JsonLoad(text) ==
    IF IsListText(text) THEN PyList
    ELSE Dict(CellOf(text, "alpha"), CellOf(text, "beta"))

\* a file: whether it exists, and its text
File(e, t) == [exists |-> e, text |-> t]
AbsentFile == File(FALSE, <<>>)

\* load_posterior(): the default on a missing file or on any exception
LoadAlwaysDefault(f) == DefaultPosterior
LoadLenient(f) ==
    IF ~f.exists THEN DefaultPosterior
    ELSE IF Len(f.text) = 0 \/ f.text[1] \notin {LBrace, LBracket} THEN DefaultPosterior
    ELSE JsonLoad(f.text)
load_posterior(f) ==
    IF ~f.exists THEN DefaultPosterior
    ELSE IF JsonLoadRaises(f.text) THEN DefaultPosterior
    ELSE JsonLoad(f.text)

(* ---------------------------------------------------------------------- *)
(* count_today_trades: what one iteration of the loop does with a line     *)
(* ---------------------------------------------------------------------- *)
\* json.loads(line.strip()) raises
LoadsRaises(l) == l.json = "malformed"

\* entry.get("type") raises AttributeError when entry is not a dict
GetRaises(l) == l.json = "nonobject"

\* datetime.fromisoformat(entry["time"].replace("Z", "+00:00")) raises:
\* KeyError (no key), AttributeError (not a string), ValueError (bad string)
TimeRaises(l) == l.time.form # "iso"

\* entry_date != date_str: a comparison of strings
DateDiffersNever(l, t) == FALSE
DateDiffers(l, t) == Strftime(l.time.day) # t

\* entry.get("won") is truthy
WonTruthy(l) == l.won = "truthy"

\* the outcome of lines 61-83 for line l and date string t:
\* "skip" (continue), "raise", "win" or "loss"
ScanOutcomeTimeFatal(l, t) ==
    IF LoadsRaises(l) THEN "skip"
    ELSE IF GetRaises(l) THEN "raise"
    ELSE IF l.type # "settlement" THEN "skip"
    ELSE IF TimeRaises(l) THEN "raise"
    ELSE IF DateDiffers(l, t) THEN "skip"
    ELSE IF WonTruthy(l) THEN "win" ELSE "loss"
ScanOutcome(l, t) ==
    IF LoadsRaises(l) THEN "skip"
    ELSE IF GetRaises(l) THEN "raise"
    ELSE IF l.type # "settlement" THEN "skip"
    ELSE IF TimeRaises(l) THEN "skip"
    ELSE IF DateDiffers(l, t) THEN "skip"
    ELSE IF WonTruthy(l) THEN "win" ELSE "loss"

(* ---------------------------------------------------------------------- *)
(* main: argument handling and the update                                  *)
(* ---------------------------------------------------------------------- *)
Arg(f) == DateStr(f, 0)
Prog == Arg("prog")
Flag == Arg("--date")
Word == Arg("word")

\* the command lines of the nightly job; argv[1] is the script (Python's
\* sys.argv[0])
CronArgv == {<<Prog>>} \cup {<<Prog, Flag, s>> : s \in CanonStrs}

\* every shape of command line (CliSpec)
ArgvSet ==
    CronArgv \cup
    {<<Prog, Flag>>, <<Prog, Word>>, <<Prog, Word, DateStr("canon", 1)>>,
     <<Prog, Flag, DateStr("canon", 1), Word>>,
     <<Prog, Flag, DateStr("loose", 1)>>, <<Prog, Flag, BadStr>>}

\* lines 95-97: len(sys.argv) > 2 and sys.argv[1] == "--date"
ParseArgsStrict(a) ==
    IF Len(a) = 1 THEN [err |-> "none", date |-> NoneStr]
    ELSE IF Len(a) = 3 /\ a[2] = Flag THEN [err |-> "none", date |-> a[3]]
    ELSE [err |-> "SystemExit", date |-> NoneStr]
ParseArgs(a) ==
    IF Len(a) > 2 /\ a[2] = Flag
    THEN [err |-> "none", date |-> a[3]]
    ELSE [err |-> "none", date |-> NoneStr]

\* line 112: wins == 0 and losses == 0
NoTradesNegative(w, l) == w < 0 /\ l < 0
NoTrades(w, l) == w = 0 /\ l = 0

\* lines 120-121 and 130-131: the record handed to save_posterior
UpdatedSwapped(p, a, b, w, l) ==
    [p EXCEPT !.alpha = Num(a + w), !.beta = Num(b + w)]
Updated(p, a, b, w, l) ==
    [p EXCEPT !.alpha = Num(a + w), !.beta = Num(b + l)]

Unset == [py |-> "unset", alpha |-> NoCell, beta |-> NoCell]

(* ---------------------------------------------------------------------- *)
(* State                                                                   *)
(* ---------------------------------------------------------------------- *)
VARIABLES
    posteriorFile,  \* POSTERIOR_FILE: [exists, text]
    journalFile,    \* JOURNAL_FILE: [exists, text], text a sequence of lines
    today,          \* the day datetime.now() falls on
    argv,           \* sys.argv of the running process (<<>>: none runs)
    pc,             \* where the run is
    err,            \* the uncaught exception that ended the run, or "none"
    date_str,       \* main's date_str
    posterior,      \* main's posterior
    alpha,          \* main's alpha
    beta,           \* main's beta
    target,         \* count_today_trades' date_str
    lineNo,         \* the journal line the scan is at
    wins,
    losses,
    runNo,          \* history: runs started so far
    fileAtStart,    \* history: the posterior file when the run started
    saveCalled,     \* history: the run called save_posterior
    prevCrash,      \* history: the record the previous run was writing when
                    \*   it was killed after truncating the file, else Unset
    scanPassed,     \* history: the last scan read the journal to its end
    scannedLen,     \* history: the number of lines that scan had read
    pendingFrom,    \* history: the first line appended after the previous
                    \*   run's scan had passed (0: there was no such scan)
    picked          \* history: the lines from pendingFrom on that the
                    \*   current scan counted

vars ==
    <<posteriorFile, journalFile, today, argv, pc, err, date_str, posterior,
      alpha, beta, target, lineNo, wins, losses, runNo, fileAtStart,
      saveCalled, prevCrash, scanPassed, scannedLen, pendingFrom, picked>>

files == <<posteriorFile, journalFile>>
locals == <<date_str, posterior, alpha, beta, target, lineNo, wins, losses>>
history == <<runNo, fileAtStart, saveCalled, prevCrash>>
scanHistory == <<scanPassed, scannedLen, pendingFrom, picked>>

Terminal == {"done", "raised"}

\* the posterior files a first run may find
InitFiles ==
    {AbsentFile,
     File(TRUE, <<Junk>>),
     File(TRUE, <<LBrace, RBrace>>),
     File(TRUE, <<LBracket, RBracket>>),
     File(TRUE, JsonDump(Dict(NotNum, Num(DefaultBeta)))),
     File(TRUE, JsonDump(Dict(Num(DefaultAlpha + 7), Num(DefaultBeta + 2))))}

NoLocals ==
    /\ date_str = NoneStr
    /\ posterior = Unset
    /\ alpha = NoCell
    /\ beta = NoCell
    /\ target = NoneStr
    /\ lineNo = 0
    /\ wins = 0
    /\ losses = 0
    /\ err = "none"

InitHistory ==
    /\ runNo = 0
    /\ fileAtStart = posteriorFile
    /\ saveCalled = FALSE
    /\ prevCrash = Unset
    /\ scanPassed = FALSE
    /\ scannedLen = 0
    /\ pendingFrom = 0
    /\ picked = {}

Init ==
    /\ posteriorFile \in InitFiles
    /\ journalFile = AbsentFile
    /\ today = 1
    /\ argv = <<>>
    /\ pc = "idle"
    /\ NoLocals
    /\ InitHistory

(* ---------------------------------------------------------------------- *)
(* One run of main()                                                       *)
(* ---------------------------------------------------------------------- *)
\* an uncaught exception e ends the run
Raise(e) == pc' = "raised" /\ err' = e

\* the process starts; main, lines 95-97
Start(a) ==
    /\ pc = "idle"
    /\ runNo < MaxRuns
    /\ argv' = a
    /\ LET r == ParseArgs(a)
       IN  /\ date_str' = r.date
           /\ IF r.err # "none" THEN Raise(r.err)
              ELSE pc' = "load" /\ err' = "none"
    /\ runNo' = runNo + 1
    /\ fileAtStart' = posteriorFile
    /\ UNCHANGED <<files, today, posterior, alpha, beta, target, lineNo, wins,
                   losses, saveCalled, prevCrash, scanHistory>>

\* main, line 100
Load ==
    /\ pc = "load"
    /\ posterior' = load_posterior(posteriorFile)
    /\ pc' = "read"
    /\ UNCHANGED <<files, today, argv, err, date_str, alpha, beta, target,
                   lineNo, wins, losses, history, scanHistory>>

\* main, line 101: posterior["alpha"], posterior["beta"]
ReadAlphaBeta ==
    /\ pc = "read"
    /\ IF posterior.py # "dict"
       THEN Raise("TypeError") /\ UNCHANGED <<alpha, beta>>
       ELSE IF ~posterior.alpha.has \/ ~posterior.beta.has
       THEN Raise("KeyError") /\ UNCHANGED <<alpha, beta>>
       ELSE /\ alpha' = posterior.alpha
            /\ beta' = posterior.beta
            /\ pc' = "stats"
            /\ err' = err
    /\ UNCHANGED <<files, today, argv, date_str, posterior, target, lineNo,
                   wins, losses, history, scanHistory>>

\* main, lines 103-107: compute_posterior_stats(alpha, beta) and the report;
\* the arithmetic raises TypeError unless both are numbers
Stats ==
    /\ pc = "stats"
    /\ IF alpha.num /\ beta.num THEN pc' = "count" /\ err' = err
       ELSE Raise("TypeError")
    /\ UNCHANGED <<files, today, argv, locals, history, scanHistory>>

\* main, line 110, and count_today_trades, lines 47-59
CountBegin ==
    /\ pc = "count"
    /\ LET t == IF date_str = NoneStr THEN NowStr(today) ELSE date_str
       IN  /\ target' = t
           /\ IF StrptimeRaises(t)
              THEN /\ Raise("ValueError")
                   /\ UNCHANGED <<lineNo, scanHistory>>
              ELSE /\ err' = err
                   /\ pendingFrom' = IF scanPassed THEN scannedLen + 1 ELSE 0
                   /\ picked' = {}
                   /\ IF ~journalFile.exists
                      THEN /\ pc' = "scanned"
                           /\ lineNo' = lineNo
                           /\ scanPassed' = FALSE
                           /\ scannedLen' = 0
                      ELSE /\ pc' = "scan"
                           /\ lineNo' = 1
                           /\ scanPassed' = FALSE
                           /\ scannedLen' = scannedLen
    /\ UNCHANGED <<files, today, argv, date_str, posterior, alpha, beta, wins,
                   losses, history>>

\* count_today_trades, lines 60-83: one iteration of the loop
ScanLine ==
    /\ pc = "scan"
    /\ lineNo <= Len(journalFile.text)
    /\ LET o == ScanOutcome(journalFile.text[lineNo], target)
       IN  IF o = "raise"
           THEN Raise("AttributeError") /\ UNCHANGED <<lineNo, wins, losses, picked>>
           ELSE /\ pc' = pc
                /\ err' = err
                /\ lineNo' = lineNo + 1
                /\ wins' = IF o = "win" THEN wins + 1 ELSE wins
                /\ losses' = IF o = "loss" THEN losses + 1 ELSE losses
                /\ picked' = IF o # "skip" /\ pendingFrom > 0 /\ lineNo >= pendingFrom
                             THEN picked \cup {lineNo} ELSE picked
    /\ UNCHANGED <<files, today, argv, date_str, posterior, alpha, beta, target,
                   history, scanPassed, scannedLen, pendingFrom>>

\* count_today_trades, line 85: the file is exhausted
ScanReturn ==
    /\ pc = "scan"
    /\ lineNo > Len(journalFile.text)
    /\ pc' = "scanned"
    /\ scanPassed' = TRUE
    /\ scannedLen' = Len(journalFile.text)
    /\ UNCHANGED <<files, today, argv, err, locals, history, pendingFrom, picked>>

\* main, lines 112-132: stop on a day without settlements, else update
\* the record and call save_posterior
Decide ==
    /\ pc = "scanned"
    /\ IF NoTrades(wins, losses)
       THEN pc' = "done" /\ UNCHANGED <<posterior, saveCalled>>
       ELSE /\ posterior' = Updated(posterior, alpha.v, beta.v, wins, losses)
            /\ saveCalled' = TRUE
            /\ pc' = "save"
    /\ UNCHANGED <<files, today, argv, err, date_str, alpha, beta, target,
                   lineNo, wins, losses, runNo, fileAtStart, prevCrash,
                   scanHistory>>

\* save_posterior, lines 32-33: makedirs finds the directory (the journal
\* that produced the counts lives in it); open(..., "w") truncates the file
SaveOpen ==
    /\ pc = "save"
    /\ posteriorFile' = File(TRUE, <<>>)
    /\ pc' = "save_write"
    /\ UNCHANGED <<journalFile, today, argv, err, locals, history, scanHistory>>

\* save_posterior, line 34: json.dump writes the text piece by piece
SaveWrite ==
    /\ pc = "save_write"
    /\ LET out == JsonDump(posterior)
           k == Len(posteriorFile.text)
       IN  /\ k < Len(out)
           /\ posteriorFile' = File(TRUE, Append(posteriorFile.text, out[k + 1]))
           /\ pc' = IF k + 1 = Len(out) THEN "save_close" ELSE "save_write"
    /\ UNCHANGED <<journalFile, today, argv, err, locals, history, scanHistory>>

\* save_posterior, line 35, and main, lines 135-139: the file is closed, the
\* summary printed, main returns
SaveClose ==
    /\ pc = "save_close"
    /\ pc' = "done"
    /\ UNCHANGED <<files, today, argv, err, locals, history, scanHistory>>

\* the process is gone and its locals with it
Gone ==
    /\ pc' = "idle"
    /\ argv' = <<>>
    /\ err' = "none"
    /\ date_str' = NoneStr
    /\ posterior' = Unset
    /\ alpha' = NoCell
    /\ beta' = NoCell
    /\ target' = NoneStr
    /\ lineNo' = 0
    /\ wins' = 0
    /\ losses' = 0
    /\ fileAtStart' = posteriorFile
    /\ saveCalled' = FALSE
    /\ pendingFrom' = 0
    /\ picked' = {}

\* the process is killed inside save_posterior: in makedirs (the file is as
\* it was) or between open() and the return (the file holds what was
\* written so far)
Crash ==
    /\ pc \in {"save", "save_write", "save_close"}
    /\ Gone
    /\ prevCrash' = IF pc = "save" THEN Unset ELSE posterior
    /\ UNCHANGED <<files, today, runNo, scanPassed, scannedLen>>

\* main returns (status 0) or the uncaught exception ends the process
\* (nonzero status)
Exit ==
    /\ pc \in Terminal
    /\ Gone
    /\ prevCrash' = Unset
    /\ UNCHANGED <<files, today, runNo, scanPassed, scannedLen>>

(* ---------------------------------------------------------------------- *)
(* The environment                                                         *)
(* ---------------------------------------------------------------------- *)
\* The bot appends a line to the journal.  A run reads the journal only
\* during its scan, which reads on until it finds no further line: an
\* append before the scan has returned has the effect of one before the
\* run, and one at any later point of the run the effect of one right after
\* the scan has returned.  Those are the moments modelled.
AppendLine(l) ==
    /\ pc \in {"idle", "scanned"}
    /\ Len(journalFile.text) < MaxJournal
    /\ journalFile' = File(TRUE, Append(journalFile.text, l))
    /\ UNCHANGED <<posteriorFile, today, argv, pc, err, locals, history,
                   scanHistory>>

\* Midnight passes.  A run reads the clock once, in count_today_trades, so
\* midnight during a run has the effect of midnight before or after it.
Tick ==
    /\ pc = "idle"
    /\ today < MaxDay
    /\ today' = today + 1
    /\ UNCHANGED <<files, argv, pc, err, locals, history, scanHistory>>

Run ==
    \/ Load
    \/ ReadAlphaBeta
    \/ Stats
    \/ CountBegin
    \/ ScanLine
    \/ ScanReturn
    \/ Decide
    \/ SaveOpen
    \/ SaveWrite
    \/ SaveClose
    \/ Exit

Next ==
    \/ \E a \in CronArgv : Start(a)
    \/ Run
    \/ Crash
    \/ \E l \in AppendLines : AppendLine(l)
    \/ Tick

Spec == Init /\ [][Next]_vars

(* ---------------------------------------------------------------------- *)
(* Runs under every shape of command line, over a journal that is at rest  *)
(* ---------------------------------------------------------------------- *)
CliInit ==
    /\ posteriorFile \in InitFiles
    /\ journalFile \in
         {AbsentFile, File(TRUE, <<Settlement(1, "truthy")>>),
          File(TRUE, <<Settlement(MaxDay, "falsy"), NonObjectLine>>)}
    /\ today \in Days
    /\ argv = <<>>
    /\ pc = "idle"
    /\ NoLocals
    /\ InitHistory

CliNext ==
    \/ \E a \in ArgvSet : Start(a)
    \/ Run

CliSpec == CliInit /\ [][CliNext]_vars

(* ---------------------------------------------------------------------- *)
(* count_today_trades on its own: every journal, every date argument       *)
(* ---------------------------------------------------------------------- *)
RECURSIVE SeqsUpTo(_, _)
SeqsUpTo(S, n) ==
    IF n = 0 THEN {<<>>}
    ELSE LET shorter == SeqsUpTo(S, n - 1)
         IN  shorter \cup {Append(s, x) : s \in shorter, x \in S}

ScanInit ==
    /\ posteriorFile = AbsentFile
    /\ journalFile \in {AbsentFile} \cup {File(TRUE, s) : s \in SeqsUpTo(AllLines, MaxLines)}
    /\ today \in Days
    /\ argv = <<Prog>>
    /\ pc = "count"
    /\ date_str \in {NoneStr, BadStr} \cup CanonStrs \cup LooseStrs
    /\ posterior = DefaultPosterior
    /\ alpha = posterior.alpha
    /\ beta = posterior.beta
    /\ target = NoneStr
    /\ lineNo = 0
    /\ wins = 0
    /\ losses = 0
    /\ err = "none"
    /\ InitHistory

ScanNext == CountBegin \/ ScanLine \/ ScanReturn

ScanSpec == ScanInit /\ [][ScanNext]_vars

(* ====================================================================== *)
(* The claims                                                              *)
(* ====================================================================== *)
\* the record a parseable posterior file holds
Held(f) == JsonLoad(f.text)
Parses(f) == f.exists /\ ~JsonLoadRaises(f.text)
ValidRecord(p) == p.py = "dict" /\ p.alpha.num /\ p.beta.num

\* C1: a run whose scan returned counts that are not both zero ends with the
\* posterior file holding exactly alpha + wins and beta + losses, alpha and
\* beta being what the run loaded at its start (the file's record, or 83/3).
C1_Additive ==
    (pc = "done" /\ ~(wins = 0 /\ losses = 0)) =>
        /\ saveCalled
        /\ alpha = (IF Parses(fileAtStart) THEN Held(fileAtStart) ELSE DefaultPosterior).alpha
        /\ beta = (IF Parses(fileAtStart) THEN Held(fileAtStart) ELSE DefaultPosterior).beta
        /\ posteriorFile.exists
        /\ Parses(posteriorFile)
        /\ Held(posteriorFile) = Dict(Num(alpha.v + wins), Num(beta.v + losses))

\* C1, its example and its consequence: the default prior Beta(83,3) with
\* one win and one loss became Beta(84,4), and a second run over the same
\* day's journal has added the win and the loss again
C1_Witness ==
    /\ pc = "done"
    /\ runNo = 2
    /\ wins = 1
    /\ losses = 1
    /\ Held(fileAtStart) = Dict(Num(DefaultAlpha + 1), Num(DefaultBeta + 1))
    /\ Held(posteriorFile) = Dict(Num(DefaultAlpha + 2), Num(DefaultBeta + 2))

\* C2: when the scan yields no win and no loss (journal missing, or no
\* settlement of the target date), the run ends without calling
\* save_posterior and the posterior file is as it was when the run started.
C2_ZeroTradeNoWrite ==
    (pc \in {"scanned", "save", "save_write", "save_close", "done"}
        /\ wins = 0 /\ losses = 0) =>
        /\ pc \in {"scanned", "done"}
        /\ ~saveCalled
        /\ posteriorFile = fileAtStart

\* C2: a zero-trade day over a journal that holds lines, the posterior file
\* being corrupt before and after
C2_Witness ==
    /\ pc = "done"
    /\ wins = 0
    /\ losses = 0
    /\ Len(journalFile.text) > 0
    /\ lineNo > Len(journalFile.text)
    /\ posteriorFile = File(TRUE, <<Junk>>)

\* C3: whatever the posterior file holds, load_posterior returns a record
\* with numeric alpha and beta (the default when the file is missing or does
\* not parse), so that main reads alpha and beta and computes with them
\* without an error.
C3_LoadAlwaysValid ==
    /\ (pc = "read" => ValidRecord(posterior))
    /\ (pc = "read" /\ ~Parses(posteriorFile) => posterior = DefaultPosterior)
    /\ (pc = "raised" => err \notin {"KeyError", "TypeError"})

\* C7, as claimed: a run that finds the posterior file present writes alpha
\* and beta that are each at least the alpha and beta the file held.
C7_NeverBelowHeld ==
    (pc = "done" /\ saveCalled /\ fileAtStart.exists) =>
        /\ Held(posteriorFile).alpha.v >= CellOf(fileAtStart.text, "alpha").v
        /\ Held(posteriorFile).beta.v >= CellOf(fileAtStart.text, "beta").v

\* C7, amended: a run that finds a posterior file that parses to a record
\* writes alpha and beta at least those of the record; a run that finds the
\* file missing or unparseable writes the default 83/3 plus the run's counts.
C7_ResetOnlyByDefault ==
    (pc = "done" /\ saveCalled) =>
        IF Parses(fileAtStart)
        THEN /\ Held(posteriorFile).alpha.v >= Held(fileAtStart).alpha.v
             /\ Held(posteriorFile).beta.v >= Held(fileAtStart).beta.v
        ELSE Held(posteriorFile) =
                 Dict(Num(DefaultAlpha + wins), Num(DefaultBeta + losses))

\* C7: a run found a record with counts above the default and wrote more
C7_Witness ==
    /\ pc = "done"
    /\ saveCalled
    /\ Parses(fileAtStart)
    /\ Held(fileAtStart).alpha.v > DefaultAlpha
    /\ Held(posteriorFile).alpha.v > Held(fileAtStart).alpha.v

\* C9: after a run was killed between the truncation of the posterior file
\* and the end of save_posterior, the next run loads either the complete
\* record that was being written or the default, whatever part of the text
\* reached the file, and reads alpha and beta from it without an error: if
\* that run ends in an exception, it is the one a journal line raises.
C9_CrashAbsorbed ==
    prevCrash # Unset =>
        /\ (pc \in {"read", "stats", "count", "scan", "scanned"} =>
               /\ posterior \in {prevCrash, DefaultPosterior}
               /\ (posterior = prevCrash => posteriorFile.text = JsonDump(prevCrash)))
        /\ (pc = "raised" => err = "AttributeError")

\* C9: the run after a crash that left half of the text loaded the default
C9_Witness ==
    /\ prevCrash # Unset
    /\ pc = "stats"
    /\ Len(fileAtStart.text) = 2
    /\ posterior = DefaultPosterior
    /\ alpha = Num(DefaultAlpha)

\* the lines that were appended after the previous run's scan had passed
\* and that the current scan has read
Pending ==
    {i \in 1..Len(journalFile.text) : pendingFrom > 0 /\ i >= pendingFrom /\ i < lineNo}
IsSettlement(l) == l.json = "object" /\ l.type = "settlement" /\ l.time.form = "iso"

\* C8, as claimed: every settlement appended after a run's scan had passed
\* is counted by the next run's scan.
C8_LateEntriesPickedUp ==
    pc = "scanned" =>
        \A i \in Pending : IsSettlement(journalFile.text[i]) => i \in picked

\* C8, amended: a settlement appended after a run's scan had passed is
\* counted by the next run's scan exactly when its date, written
\* YYYY-MM-DD, is that run's target date string.
C8_LateEntriesPickedUpIfSameDate ==
    pc = "scanned" =>
        \A i \in Pending : IsSettlement(journalFile.text[i]) =>
            (i \in picked <=> Strftime(journalFile.text[i].time.day) = target)

\* C8: a late settlement was picked up by the next run
C8_Witness ==
    /\ pc = "scanned"
    /\ runNo = 2
    /\ \E i \in Pending : IsSettlement(journalFile.text[i]) /\ i \in picked

\* C6, as claimed: a run started with a bad number of arguments ends with an
\* uncaught error and without a write, and only a run started without any
\* argument uses the current date.
BadCount(a) == Len(a) \notin {1, 3}
C6_BadCountFails ==
    /\ (argv # <<>> /\ BadCount(argv) /\ pc \in Terminal) =>
           (pc = "raised" /\ ~saveCalled /\ posteriorFile = fileAtStart)
    /\ (argv # <<>> /\ pc \in {"scan", "scanned"} /\ target = NowStr(today)
           /\ date_str = NoneStr) => Len(argv) = 1

\* C6, amended: argument handling never ends the run; a command line that is
\* not `--date <value>`, followed by anything, falls back to the current
\* date, and with `--date <value>` the value is the target whatever follows
\* it.  The one argument that ends the run is a value strptime rejects: a
\* ValueError, before any write.
HasDateValue(a) == Len(a) > 2 /\ a[2] = Flag
C6_BadCountTolerated ==
    argv # <<>> =>
        /\ err \in {"none", "KeyError", "TypeError", "ValueError", "AttributeError"}
        /\ (err = "ValueError" =>
               /\ HasDateValue(argv)
               /\ StrptimeRaises(argv[3])
               /\ ~saveCalled
               /\ posteriorFile = fileAtStart)
        /\ (pc \in {"scan", "scanned"} =>
               target = IF HasDateValue(argv) THEN argv[3] ELSE NowStr(today))

\* C6: `--date` without a value, and the run completed with a write
C6_Witness ==
    /\ argv = <<Prog, Flag>>
    /\ pc = "done"
    /\ saveCalled
    /\ target = NowStr(today)

\* what the scan is claimed to count: settlements whose timestamp falls on
\* the target's calendar day
OnTargetDay(l, t) == IsSettlement(l) /\ l.time.day = t.day
WinsOn(lines, t) ==
    Cardinality({i \in 1..Len(lines) : OnTargetDay(lines[i], t) /\ lines[i].won = "truthy"})
LossesOn(lines, t) ==
    Cardinality({i \in 1..Len(lines) : OnTargetDay(lines[i], t) /\ lines[i].won # "truthy"})

\* C4: for every journal and every date argument strptime accepts,
\* count_today_trades returns the number of settlements of that date that
\* are won, and the number that are not.
C4_ExactCounts ==
    (pc \in {"scanned", "raised"} /\ ~StrptimeRaises(target)) =>
        /\ pc = "scanned"
        /\ wins = WinsOn(journalFile.text, target)
        /\ losses = LossesOn(journalFile.text, target)

\* C10: given a date strptime accepts, count_today_trades raises for no
\* journal line.
C10_NoLineRaises ==
    (pc = "raised") => StrptimeRaises(target)

\* C5: a line that json.loads rejects, and a settlement whose time is
\* missing, not a string or not a timestamp, is passed over: the scan goes
\* on to the next line with both counters as they were and no error; and a
\* scan that returns, for a zero-padded date, has counted every settlement
\* of that date, whatever bad lines stand before or after it.
Skippable(l) == LoadsRaises(l) \/ (l.json = "object" /\ l.type = "settlement" /\ l.time.form # "iso")
C5_BadLinesSkipped ==
    /\ [][(pc = "scan" /\ lineNo <= Len(journalFile.text)
             /\ Skippable(journalFile.text[lineNo])) =>
           (/\ pc' = "scan"
            /\ err' = "none"
            /\ lineNo' = lineNo + 1
            /\ wins' = wins
            /\ losses' = losses
            /\ journalFile' = journalFile)]_vars
    /\ [](pc = "scanned" /\ target.form = "canon" =>
            /\ wins = WinsOn(journalFile.text, target)
            /\ losses = LossesOn(journalFile.text, target))

\* C5: a scan passed over a bad line and counted the settlement after it
C5_Witness ==
    /\ pc = "scanned"
    /\ Len(journalFile.text) = 2
    /\ Skippable(journalFile.text[1])
    /\ OnTargetDay(journalFile.text[2], target)
    /\ wins + losses = 1

====
